---- MODULE Spec2Model ----
(***************************************************************************)
(* feiertage: German holidays.  The crate is a library of pure functions   *)
(* (Holiday::date, Region::holidays, Region::is_holiday and the extension  *)
(* method on time::Date).  The model is a caller that makes one call of    *)
(* one of these functions, on arguments drawn from bounded sets, and       *)
(* records what the call returned and whether it panicked.                 *)
(***************************************************************************)
EXTENDS Integers, Sequences, FiniteSets, TLC

VARIABLES op, year, holiday, region, date, done, ret, panicked

vars == <<op, year, holiday, region, date, done, ret, panicked>>

(***************************************************************************)
(* Bounds of the model.                                                    *)
(***************************************************************************)
\* Holiday::date and its helpers take any i32 year; the model calls them on
\* every year time::Date can hold and on YearMargin years beyond each end.
YearMargin == 2

\* Region::is_holiday is called on every calendar date of each anchor year and
\* of the YearWindow years after it.
YearWindow == 1

(***************************************************************************)
(* Rust's integer arithmetic and Option.                                   *)
(***************************************************************************)
\* i32 `/`: the quotient truncated towards zero (the divisor is positive here).
Div(a, b) == IF a >= 0 THEN a \div b ELSE -((-a) \div b)

\* i32 `%`: the remainder, with the sign of the dividend.
Rem(a, b) == a - b * Div(a, b)

\* `as u8`: the low eight bits.
AsU8(x) == x % 256

None == <<>>

Some(x) == <<x>>

(***************************************************************************)
(* The time crate (default features): Date is a proleptic Gregorian        *)
(* calendar date with a year in -9999..=9999.                              *)
(***************************************************************************)
MIN_YEAR == -9999

MAX_YEAR == 9999

is_leap_year(y) == y % 4 = 0 /\ (y % 100 # 0 \/ y % 400 = 0)

days_in_month(y, m) ==
    IF m \in {4, 6, 9, 11} THEN 30
    ELSE IF m = 2 THEN (IF is_leap_year(y) THEN 29 ELSE 28)
    ELSE 31

\* Month::try_from(u8).ok(): January = 1 .. December = 12.
Month_try_from(n) == IF n \in 1..12 THEN Some(n) ELSE None

\* Date::from_calendar_date(year, month, day).ok()
from_calendar_date(y, m, d) ==
    IF y >= MIN_YEAR /\ y <= MAX_YEAR /\ d >= 1 /\ d <= days_in_month(y, m)
    THEN Some([year |-> y, month |-> m, day |-> d])
    ELSE None

\* Date::to_julian_day: the Julian day number of a date.
to_julian_day(d) ==
    LET y   == IF d.month <= 2 THEN d.year - 1 ELSE d.year
        era == y \div 400
        yoe == y - era * 400
        mp  == IF d.month > 2 THEN d.month - 3 ELSE d.month + 9
        doy == (153 * mp + 2) \div 5 + d.day - 1
        doe == yoe * 365 + yoe \div 4 - yoe \div 100 + doy
    IN  era * 146097 + doe + 1721120

\* Date::from_julian_day for a day number in range.
from_julian_day(jd) ==
    LET z   == jd - 1721120
        era == z \div 146097
        doe == z - era * 146097
        yoe == (doe - doe \div 1460 + doe \div 36524 - doe \div 146096) \div 365
        doy == doe - (365 * yoe + yoe \div 4 - yoe \div 100)
        mp  == (5 * doy + 2) \div 153
        d   == doy - (153 * mp + 2) \div 5 + 1
        m   == IF mp < 10 THEN mp + 3 ELSE mp - 9
        y   == yoe + era * 400
    IN  [year |-> IF m <= 2 THEN y + 1 ELSE y, month |-> m, day |-> d]

\* Date::MIN and Date::MAX as Julian day numbers.
MIN_JULIAN_DAY == to_julian_day([year |-> MIN_YEAR, month |-> 1, day |-> 1])

MAX_JULIAN_DAY == to_julian_day([year |-> MAX_YEAR, month |-> 12, day |-> 31])

\* Date::weekday().number_days_from_monday(): Monday = 0 .. Sunday = 6.
number_days_from_monday(d) == to_julian_day(d) % 7

\* Date::checked_add(Duration::days(n)): None outside Date::MIN..=Date::MAX.
checked_add(d, n) ==
    LET jd == to_julian_day(d) + n
    IN  IF jd < MIN_JULIAN_DAY \/ jd > MAX_JULIAN_DAY THEN None
        ELSE Some(from_julian_day(jd))

\* `Date + Duration` is checked_add(..).expect(..): it panics on None.  A
\* function's outcome is the pair of what it returns and whether it panicked.
Returned(v) == [value |-> v, panic |-> FALSE]

Panic == [value |-> None, panic |-> TRUE]

DatePlusDays(d, n) ==
    LET sum == checked_add(d, n)
    IN  IF sum = None THEN Panic ELSE Returned(sum)

(***************************************************************************)
(* holidays.rs                                                             *)
(***************************************************************************)
Holiday ==
    { "Neujahr", "HeiligeDreiKoenige", "Frauentag", "Karfreitag", "Ostermontag",
      "TagDerArbeit", "TagDerBefreiung", "ChristiHimmelfahrt", "Pfingstsonntag",
      "Pfingstmontag", "Fronleichnam", "AugsburgerFriedensfest",
      "MariaeHimmelfahrt", "Weltkindertag", "TagDerDeutschenEinheit",
      "Reformationstag", "Allerheiligen", "BussUndBettag",
      "ErsterWeihnachtsfeiertag", "ZweiterWeihnachtsfeiertag" }

\* Mutant: the range starts a year early, `1582..=9999`.
computus_in_range_from_1582(y) == y >= 1582 /\ y <= 9999

\* if !(1583..=9999).contains(&year) { return None; }
computus_in_range(y) == y >= 1583 /\ y <= 9999

\* Mutant: the lunar correction without its shift, `bb / 25`.
computus_ff_no_shift(bb) == Div(bb, 25)

\* let ff = (bb + 8) / 25;
computus_ff(bb) == Div(bb + 8, 25)

\* Mutant: the correction that moves the latest Easters a week back is left out.
computus_mm_zero(aa, hh, ll) == 0

\* let mm = (aa + 11 * hh + 22 * ll) / 451;
computus_mm(aa, hh, ll) == Div(aa + 11 * hh + 22 * ll, 451)

\* Easter in the Gregorian calendar.
computus_gregorian(y) ==
    IF ~computus_in_range(y) THEN None
    ELSE
    LET aa == Rem(y, 19)
        bb == Div(y, 100)
        cc == Rem(y, 100)
        dd == Div(bb, 4)
        ee == Rem(bb, 4)
        ff == computus_ff(bb)
        gg == Div(bb - ff + 1, 3)
        hh == Rem(19 * aa + bb - dd - gg + 15, 30)
        ii == Div(cc, 4)
        kk == Rem(cc, 4)
        ll == Rem(32 + 2 * ee + 2 * ii - hh - kk, 7)
        mm == computus_mm(aa, hh, ll)
        month == Div(hh + ll - 7 * mm + 114, 31)
        day == Rem(hh + ll - 7 * mm + 114, 31) + 1
        mo == Month_try_from(AsU8(month))
    IN  IF mo = None THEN None ELSE from_calendar_date(y, mo[1], AsU8(day))

\* Mutant: the offset is subtracted, `easter_sunday - Duration::days(..)`.
relative_to_easter_sunday_backwards(y, days_offset) ==
    LET easter_sunday == computus_gregorian(y)
    IN  IF easter_sunday = None THEN Returned(None)
        ELSE DatePlusDays(easter_sunday[1], -days_offset)

\* Mutant: the offset is taken in weeks, `Duration::weeks(days_offset)`.
relative_to_easter_sunday_weeks(y, days_offset) ==
    LET easter_sunday == computus_gregorian(y)
    IN  IF easter_sunday = None THEN Returned(None)
        ELSE DatePlusDays(easter_sunday[1], 7 * days_offset)

\* Calculate a date relative to easter sunday.
relative_to_easter_sunday(y, days_offset) ==
    LET easter_sunday == computus_gregorian(y)
    IN  IF easter_sunday = None THEN Returned(None)
        ELSE DatePlusDays(easter_sunday[1], days_offset)

\* Mutant: the comparison is `<= 3`.
duration_to_previous_wednesday_le(weekday_ordinal) ==
    IF weekday_ordinal <= 3 THEN -(weekday_ordinal + 5) ELSE 2 - weekday_ordinal

\* The step from November 23 back to the Wednesday before it.
duration_to_previous_wednesday(weekday_ordinal) ==
    IF weekday_ordinal < 3 THEN -(weekday_ordinal + 5) ELSE 2 - weekday_ordinal

\* Calculate bus und bettag.
bus_und_bettag(y) ==
    LET reference_date == from_calendar_date(y, 11, 23)
    IN  IF reference_date = None THEN Returned(None)
        ELSE DatePlusDays(reference_date[1],
                 duration_to_previous_wednesday(
                     number_days_from_monday(reference_date[1])))

\* Holiday::date
Holiday_date(h, y) ==
    CASE h = "Neujahr" -> Returned(from_calendar_date(y, 1, 1))
      [] h = "HeiligeDreiKoenige" -> Returned(from_calendar_date(y, 1, 6))
      [] h = "Frauentag" -> Returned(from_calendar_date(y, 3, 8))
      [] h = "Karfreitag" -> relative_to_easter_sunday(y, -2)
      [] h = "Ostermontag" -> relative_to_easter_sunday(y, 1)
      [] h = "TagDerArbeit" -> Returned(from_calendar_date(y, 5, 1))
      [] h = "TagDerBefreiung" -> Returned(from_calendar_date(y, 5, 8))
      [] h = "ChristiHimmelfahrt" -> relative_to_easter_sunday(y, 39)
      [] h = "Pfingstsonntag" -> relative_to_easter_sunday(y, 49)
      [] h = "Pfingstmontag" -> relative_to_easter_sunday(y, 50)
      [] h = "Fronleichnam" -> relative_to_easter_sunday(y, 60)
      [] h = "AugsburgerFriedensfest" -> Returned(from_calendar_date(y, 8, 8))
      [] h = "MariaeHimmelfahrt" -> Returned(from_calendar_date(y, 8, 15))
      [] h = "Weltkindertag" -> Returned(from_calendar_date(y, 9, 20))
      [] h = "TagDerDeutschenEinheit" -> Returned(from_calendar_date(y, 10, 3))
      [] h = "Reformationstag" -> Returned(from_calendar_date(y, 10, 31))
      [] h = "Allerheiligen" -> Returned(from_calendar_date(y, 11, 1))
      [] h = "BussUndBettag" -> bus_und_bettag(y)
      [] h = "ErsterWeihnachtsfeiertag" -> Returned(from_calendar_date(y, 12, 25))
      [] h = "ZweiterWeihnachtsfeiertag" -> Returned(from_calendar_date(y, 12, 26))

(***************************************************************************)
(* regions.rs                                                              *)
(***************************************************************************)
Region ==
    { "BadenWuerttemberg", "Bayern", "BayernAugsburg", "BayernCatholic",
      "BayernProtestant", "Berlin", "Brandenburg", "Bremen", "Hamburg",
      "Hessen", "MecklenburgVorpommern", "Niedersachsen", "NordrheinWestfalen",
      "RheinlandPfalz", "Saarland", "Sachsen", "SachsenCatholic",
      "SachenProtestant", "SachsenAnhalt", "SchleswigHolstein", "Thueringen",
      "ThueringenCatholic", "ThueringenProtestant" }

\* A constant array of holidays that are observed nationwide.
NATION_WIDE_HOLIDAYS ==
    << "Neujahr", "Karfreitag", "Ostermontag", "TagDerArbeit",
       "ChristiHimmelfahrt", "Pfingstmontag", "TagDerDeutschenEinheit",
       "ErsterWeihnachtsfeiertag", "ZweiterWeihnachtsfeiertag" >>

\* The match of Region::holidays: the region's own list.
region_specific(r) ==
    CASE r = "BadenWuerttemberg" ->
            <<"HeiligeDreiKoenige", "Fronleichnam", "Allerheiligen">>
      [] r = "Bayern" ->
            <<"HeiligeDreiKoenige", "Fronleichnam", "MariaeHimmelfahrt",
              "Allerheiligen">>
      [] r = "BayernAugsburg" ->
            <<"HeiligeDreiKoenige", "Fronleichnam", "AugsburgerFriedensfest",
              "MariaeHimmelfahrt", "Allerheiligen">>
      [] r = "BayernCatholic" ->
            <<"HeiligeDreiKoenige", "Fronleichnam", "MariaeHimmelfahrt",
              "Allerheiligen">>
      [] r = "BayernProtestant" ->
            <<"HeiligeDreiKoenige", "Fronleichnam", "MariaeHimmelfahrt">>
      [] r = "Berlin" -> <<"Frauentag">>
      [] r = "Brandenburg" -> <<"Reformationstag">>
      [] r = "Bremen" -> <<"Reformationstag">>
      [] r = "Hamburg" -> <<"Reformationstag">>
      [] r = "Hessen" -> <<"Fronleichnam">>
      [] r = "MecklenburgVorpommern" -> <<"Frauentag", "Reformationstag">>
      [] r = "Niedersachsen" -> <<"Reformationstag">>
      [] r = "NordrheinWestfalen" -> <<"Fronleichnam", "Allerheiligen">>
      [] r = "RheinlandPfalz" -> <<"Fronleichnam", "Allerheiligen">>
      [] r = "Saarland" ->
            <<"Fronleichnam", "MariaeHimmelfahrt", "Allerheiligen">>
      [] r = "Sachsen" -> <<"Reformationstag", "BussUndBettag">>
      [] r = "SachsenCatholic" ->
            <<"Reformationstag", "Fronleichnam", "BussUndBettag">>
      [] r = "SachenProtestant" -> <<"Reformationstag", "BussUndBettag">>
      [] r = "SachsenAnhalt" -> <<"HeiligeDreiKoenige", "Reformationstag">>
      [] r = "SchleswigHolstein" -> <<"Reformationstag">>
      [] r = "Thueringen" -> <<"Weltkindertag", "Reformationstag">>
      [] r = "ThueringenCatholic" -> <<"Fronleichnam", "Reformationstag">>
      [] r = "ThueringenProtestant" -> <<"Reformationstag">>

\* Mutant: the nationwide list is not appended.
extend_from_slice_forgotten(v, slice) == v

\* holidays.extend_from_slice(NATION_WIDE_HOLIDAYS)
extend_from_slice(v, slice) == v \o slice

\* Mutant: the Sachsen arm holds the list of the SachsenCatholic arm.
Region_holidays_sachsen_slip(r) ==
    extend_from_slice(
        region_specific(IF r = "Sachsen" THEN "SachsenCatholic" ELSE r),
        NATION_WIDE_HOLIDAYS)

\* Region::holidays
Region_holidays(r) == extend_from_slice(region_specific(r), NATION_WIDE_HOLIDAYS)

RECURSIVE is_holiday_loop(_, _, _)

\* Mutant: a holiday without a date for the year ends the loop,
\* `holiday.date(year)?` in place of `if let Some(..)`.
is_holiday_body_abort(hd, hs, i, d) ==
    IF hd.panic THEN Panic
    ELSE IF hd.value = None THEN Returned(FALSE)
    ELSE IF d = hd.value[1] THEN Returned(TRUE)
    ELSE is_holiday_loop(hs, i + 1, d)

\* The body of the loop of Region::is_holiday for one holiday of the list,
\* whose date for the year is hd: return true on a match, else go on.
is_holiday_body(hd, hs, i, d) ==
    IF hd.panic THEN Panic
    ELSE IF hd.value # None /\ d = hd.value[1] THEN Returned(TRUE)
    ELSE is_holiday_loop(hs, i + 1, d)

\* The loop of Region::is_holiday from the i-th holiday of the list on.
is_holiday_loop(hs, i, d) ==
    IF i > Len(hs) THEN Returned(FALSE)
    ELSE is_holiday_body(Holiday_date(hs[i], d.year), hs, i, d)

\* Region::is_holiday
Region_is_holiday(r, d) == is_holiday_loop(Region_holidays(r), 1, d)

\* impl HolidayExt for time::Date
HolidayExt_is_holiday(d, r) == Region_is_holiday(r, d)

(***************************************************************************)
(* The inputs of the calls.                                                *)
(***************************************************************************)
Years == (MIN_YEAR - YearMargin)..(MAX_YEAR + YearMargin)

\* The last year the computus refuses, and the year of the doc tests.
AnchorYears == {1582, 2023}

QueryYears ==
    {y \in MIN_YEAR..MAX_YEAR :
        \E a \in AnchorYears : y >= a /\ y <= a + YearWindow}

\* Every time::Date of the query years.
QueryDates ==
    {dt \in [year : QueryYears, month : 1..12, day : 1..31] :
        dt.day <= days_in_month(dt.year, dt.month)}

NoDate == [year |-> 0, month |-> 0, day |-> 0]

(***************************************************************************)
(* The caller: a call is chosen with its arguments (Init), then made.      *)
(***************************************************************************)
Pending ==
    /\ done = FALSE
    /\ ret = None
    /\ panicked = FALSE

\* Calls of the functions of holidays.rs.
InitDates ==
    /\ Pending
    /\ year \in Years
    /\ \/ op = "computus_gregorian" /\ holiday = "none"
       \/ op = "date" /\ holiday \in Holiday
    /\ region = "none"
    /\ date = NoDate

\* Calls of the functions of regions.rs and lib.rs.
InitRegions ==
    /\ Pending
    /\ year = 0
    /\ holiday = "none"
    /\ region \in Region
    /\ \/ op = "holidays" /\ date = NoDate
       \/ op \in {"is_holiday", "ext_is_holiday"} /\ date \in QueryDates

Init == InitDates \/ InitRegions

\* computus_gregorian(year)
CallComputus ==
    /\ op = "computus_gregorian" /\ ~done
    /\ ret' = computus_gregorian(year)
    /\ panicked' = FALSE
    /\ done' = TRUE
    /\ UNCHANGED <<op, year, holiday, region, date>>

\* holiday.date(year)
CallDate ==
    /\ op = "date" /\ ~done
    /\ LET out == Holiday_date(holiday, year)
       IN  /\ ret' = out.value
           /\ panicked' = out.panic
    /\ done' = TRUE
    /\ UNCHANGED <<op, year, holiday, region, date>>

\* region.holidays()
CallHolidays ==
    /\ op = "holidays" /\ ~done
    /\ ret' = Region_holidays(region)
    /\ panicked' = FALSE
    /\ done' = TRUE
    /\ UNCHANGED <<op, year, holiday, region, date>>

\* region.is_holiday(date)
CallIsHoliday ==
    /\ op = "is_holiday" /\ ~done
    /\ LET out == Region_is_holiday(region, date)
       IN  /\ ret' = out.value
           /\ panicked' = out.panic
    /\ done' = TRUE
    /\ UNCHANGED <<op, year, holiday, region, date>>

\* date.is_holiday(region), the extension method
CallExtIsHoliday ==
    /\ op = "ext_is_holiday" /\ ~done
    /\ LET out == HolidayExt_is_holiday(date, region)
       IN  /\ ret' = out.value
           /\ panicked' = out.panic
    /\ done' = TRUE
    /\ UNCHANGED <<op, year, holiday, region, date>>

NextDates == CallComputus \/ CallDate

NextRegions == CallHolidays \/ CallIsHoliday \/ CallExtIsHoliday

Next ==
    \/ CallComputus
    \/ CallDate
    \/ CallHolidays
    \/ CallIsHoliday
    \/ CallExtIsHoliday

SpecDates == InitDates /\ [][NextDates]_vars

SpecRegions == InitRegions /\ [][NextRegions]_vars

Spec == Init /\ [][Next]_vars

(***************************************************************************)
(* Vocabulary of the properties.                                           *)
(***************************************************************************)
EasterRelative ==
    { "Karfreitag", "Ostermontag", "ChristiHimmelfahrt", "Pfingstsonntag",
      "Pfingstmontag", "Fronleichnam" }

Elements(sq) == {sq[i] : i \in 1..Len(sq)}

Ymd(y, m, d) == [year |-> y, month |-> m, day |-> d]

\* The Gregorian Easter after Lilius and Clavius (Knuth, TAOCP 1.3.2, ex. 14):
\* golden number, century corrections, epact, the full moon on or after
\* March 21 and the Sunday after it, counted in days of March.
ReferenceEaster(y) ==
    LET g  == (y % 19) + 1
        c  == y \div 100 + 1
        x  == (3 * c) \div 4 - 12
        z  == (8 * c + 5) \div 25 - 5
        sd == (5 * y) \div 4 - x - 10
        e0 == (11 * g + 20 + z - x) % 30
        e  == IF (e0 = 25 /\ g > 11) \/ e0 = 24 THEN e0 + 1 ELSE e0
        n0 == 44 - e
        n1 == IF n0 < 21 THEN n0 + 30 ELSE n0
        n  == n1 + 7 - ((sd + n1) % 7)
    IN  IF n > 31 THEN Ymd(y, 4, n - 31) ELSE Ymd(y, 3, n)

(***************************************************************************)
(* C1: for every year in 1583..9999 computus_gregorian returns a date, in  *)
(* that year, that is a Sunday between March 22 and April 25 inclusive.    *)
(***************************************************************************)
EasterIsASundayInSeason ==
    (op = "computus_gregorian" /\ done /\ year >= 1583 /\ year <= 9999) =>
        /\ ret # None
        /\ ret[1].year = year
        /\ number_days_from_monday(ret[1]) = 6
        /\ \/ ret[1].month = 3 /\ ret[1].day >= 22 /\ ret[1].day <= 31
           \/ ret[1].month = 4 /\ ret[1].day >= 1 /\ ret[1].day <= 25

\* The latest Easter of the range's first centuries: April 25, 1666.
EasterIsASundayInSeasonWitness ==
    /\ op = "computus_gregorian" /\ done
    /\ year = 1666
    /\ ret = Some(Ymd(1666, 4, 25))

(***************************************************************************)
(* C2: computus_gregorian agrees with the reference computus on every year *)
(* in 1583..9999, and gives 1818-03-22, 2000-04-23, 2023-04-09, 2024-03-31 *)
(* and 2025-04-20.                                                         *)
(***************************************************************************)
EasterMatchesReference ==
    (op = "computus_gregorian" /\ done /\ year >= 1583 /\ year <= 9999) =>
        /\ ret = Some(ReferenceEaster(year))
        /\ year = 1818 => ret = Some(Ymd(1818, 3, 22))
        /\ year = 2000 => ret = Some(Ymd(2000, 4, 23))
        /\ year = 2023 => ret = Some(Ymd(2023, 4, 9))
        /\ year = 2024 => ret = Some(Ymd(2024, 3, 31))
        /\ year = 2025 => ret = Some(Ymd(2025, 4, 20))

EasterMatchesReferenceWitness ==
    /\ op = "computus_gregorian" /\ done
    /\ year = 1818
    /\ ret = Some(Ymd(1818, 3, 22))

(***************************************************************************)
(* C3: for a year outside 1583..9999 computus_gregorian returns None, and  *)
(* so does Holiday::date for each of the six Easter-relative holidays.     *)
(***************************************************************************)
OutOfRangeIsNotComputable ==
    (done /\ (year < 1583 \/ year > 9999)) =>
        /\ op = "computus_gregorian" => ret = None
        /\ (op = "date" /\ holiday \in EasterRelative) =>
                ret = None /\ ~panicked

OutOfRangeIsNotComputableWitness ==
    /\ op = "date" /\ done
    /\ holiday = "Karfreitag"
    /\ year = 1582
    /\ ret = None

EasterOffset ==
    [h \in EasterRelative |->
        CASE h = "Karfreitag" -> -2
          [] h = "Ostermontag" -> 1
          [] h = "ChristiHimmelfahrt" -> 39
          [] h = "Pfingstsonntag" -> 49
          [] h = "Pfingstmontag" -> 50
          [] h = "Fronleichnam" -> 60]

(***************************************************************************)
(* C4: for every year in 1583..9999 Holiday::date returns, for an          *)
(* Easter-relative holiday, the day at the holiday's offset from the       *)
(* year's Easter Sunday: -2, 1, 39, 49, 50 and 60 days.                    *)
(***************************************************************************)
EasterRelativeOffsets ==
    (op = "date" /\ done /\ holiday \in EasterRelative
        /\ year >= 1583 /\ year <= 9999) =>
        /\ ~panicked
        /\ ret # None
        /\ computus_gregorian(year) # None
        /\ to_julian_day(ret[1]) =
              to_julian_day(computus_gregorian(year)[1]) + EasterOffset[holiday]

\* Easter 2023 is April 9: Good Friday is April 7.
EasterRelativeOffsetsWitness ==
    /\ op = "date" /\ done
    /\ holiday = "Karfreitag"
    /\ year = 2023
    /\ ret = Some(Ymd(2023, 4, 7))

(***************************************************************************)
(* C5: for every year in which November 23 is a date, Repentance Day is a  *)
(* Wednesday from November 16 to November 22 of that year; it is           *)
(* 2023-11-22 in 2023 and 2024-11-20 in 2024.                              *)
(***************************************************************************)
RepentanceDayIsWednesdayBefore ==
    (op = "date" /\ done /\ holiday = "BussUndBettag"
        /\ year >= MIN_YEAR /\ year <= MAX_YEAR) =>
        /\ ~panicked
        /\ ret # None
        /\ ret[1].year = year /\ ret[1].month = 11
        /\ ret[1].day >= 16 /\ ret[1].day <= 22
        /\ number_days_from_monday(ret[1]) = 2
        /\ year = 2023 => ret[1].day = 22
        /\ year = 2024 => ret[1].day = 20

\* November 23, 2022 is itself a Wednesday: the holiday is a week earlier.
RepentanceDayIsWednesdayBeforeWitness ==
    /\ op = "date" /\ done
    /\ holiday = "BussUndBettag"
    /\ year = 2022
    /\ ret = Some(Ymd(2022, 11, 16))

(***************************************************************************)
(* C6: Region::is_holiday, and the extension method on a date, return true *)
(* exactly when some holiday of the region's list has the queried date as  *)
(* its date for the date's year.  A holiday without a date for that year   *)
(* is passed over: in a year without Easter, December 25 is still a        *)
(* holiday.                                                                *)
(***************************************************************************)
IsHolidayIffAListedHolidayMatches ==
    (op \in {"is_holiday", "ext_is_holiday"} /\ done) =>
        /\ ~panicked
        /\ ret = (\E h \in Elements(Region_holidays(region)) :
                     Holiday_date(h, date.year).value = Some(date))
        /\ (date.month = 12 /\ date.day = 25) => ret = TRUE

\* 1582 has no Easter: Good Friday and the like are passed over on the way
\* to the first Christmas Day.
IsHolidayIffAListedHolidayMatchesWitness ==
    /\ op = "is_holiday" /\ done
    /\ region = "Bayern"
    /\ date = Ymd(1582, 12, 25)
    /\ Holiday_date("Karfreitag", 1582).value = None
    /\ ret = TRUE

(***************************************************************************)
(* C7: Region::holidays returns a list that ends with the nine nationwide  *)
(* holidays, in which no holiday occurs twice.                             *)
(***************************************************************************)
HolidaysEndNationwideWithoutDuplicates ==
    (op = "holidays" /\ done) =>
        /\ Len(NATION_WIDE_HOLIDAYS) = 9
        /\ Len(ret) >= 9
        /\ SubSeq(ret, Len(ret) - 8, Len(ret)) = NATION_WIDE_HOLIDAYS
        /\ \A i, j \in 1..Len(ret) : ret[i] = ret[j] => i = j
        /\ \A k \in 1..9 :
              Cardinality({i \in 1..Len(ret) : ret[i] = NATION_WIDE_HOLIDAYS[k]}) = 1

HolidaysEndNationwideWithoutDuplicatesWitness ==
    /\ op = "holidays" /\ done
    /\ region = "BayernAugsburg"
    /\ Len(ret) = 14

ProtestantVariants ==
    {"BayernProtestant", "SachenProtestant", "ThueringenProtestant"}

(***************************************************************************)
(* C8: the list of a Protestant variant (BayernProtestant,                 *)
(* SachenProtestant, ThueringenProtestant) holds neither Fronleichnam nor  *)
(* MariaeHimmelfahrt, and is_holiday is false there on Corpus Christi and  *)
(* on August 15.                                                           *)
(***************************************************************************)
ProtestantVariantsExcludeCatholicHolidays ==
    (done /\ region \in ProtestantVariants) =>
        /\ op = "holidays" =>
              /\ "Fronleichnam" \notin Elements(ret)
              /\ "MariaeHimmelfahrt" \notin Elements(ret)
        /\ (op = "is_holiday" /\ date.month = 8 /\ date.day = 15) =>
              ret = FALSE
        /\ (op = "is_holiday" /\ date.year >= 1583
                /\ to_julian_day(date)
                     = to_julian_day(ReferenceEaster(date.year)) + 60) =>
              ret = FALSE

SaxonyThuringiaVariants ==
    { "Sachsen", "SachsenCatholic", "SachenProtestant",
      "Thueringen", "ThueringenCatholic", "ThueringenProtestant" }

(***************************************************************************)
(* C9: AugsburgerFriedensfest is in the list of BayernAugsburg alone;      *)
(* among the Saxony and Thuringia variants Fronleichnam is in the list of  *)
(* the two Catholic variants alone; and is_holiday is false for Bayern and *)
(* true for BayernAugsburg on 2023-08-08, false for Sachsen and true for   *)
(* SachsenCatholic on Corpus Christi 2023 (June 8), true for Berlin on     *)
(* 2023-03-08 and true for Bayern on 2023-12-25.                           *)
(***************************************************************************)
RegionalInclusionPolicy ==
    /\ (op = "holidays" /\ done) =>
          /\ "AugsburgerFriedensfest" \in Elements(ret)
                <=> region = "BayernAugsburg"
          /\ region \in SaxonyThuringiaVariants =>
                ("Fronleichnam" \in Elements(ret)
                    <=> region \in {"SachsenCatholic", "ThueringenCatholic"})
    /\ (op = "is_holiday" /\ done) =>
          /\ (region = "Bayern" /\ date = Ymd(2023, 8, 8)) => ret = FALSE
          /\ (region = "BayernAugsburg" /\ date = Ymd(2023, 8, 8)) => ret = TRUE
          /\ (region = "Sachsen" /\ date = Ymd(2023, 6, 8)) => ret = FALSE
          /\ (region = "SachsenCatholic" /\ date = Ymd(2023, 6, 8)) => ret = TRUE
          /\ (region = "Berlin" /\ date = Ymd(2023, 3, 8)) => ret = TRUE
          /\ (region = "Bayern" /\ date = Ymd(2023, 12, 25)) => ret = TRUE

\* June 8, 2023 is Corpus Christi, sixty days after Easter.
RegionalInclusionPolicyWitness ==
    /\ op = "is_holiday" /\ done
    /\ region = "SachsenCatholic"
    /\ date = Ymd(2023, 6, 8)
    /\ Holiday_date("Fronleichnam", 2023).value = Some(date)
    /\ ret = TRUE

(***************************************************************************)
(* C10: a date that Holiday::date returns lies in the year it was asked    *)
(* for, and the call does not panic on the day addition; so is_holiday,    *)
(* which looks at the queried date's own year only, is true on every date  *)
(* that a listed holiday has in that year or in a neighbouring one.        *)
(***************************************************************************)
HolidayDateStaysInItsYear ==
    /\ (op = "date" /\ done) =>
          /\ ~panicked
          /\ ret # None => ret[1].year = year
    /\ (op = "is_holiday" /\ done) =>
          /\ ~panicked
          /\ \A h \in Elements(Region_holidays(region)) :
                \A y \in (date.year - 1)..(date.year + 1) :
                    Holiday_date(h, y).value = Some(date) => ret = TRUE

\* Corpus Christi of the last year of the computus.
HolidayDateStaysInItsYearWitness ==
    /\ op = "date" /\ done
    /\ holiday = "Fronleichnam"
    /\ year = 9999
    /\ ret # None
    /\ ret[1].year = 9999

====
